---- MODULE Spec2Model ----
(***************************************************************************)
(* protoc-gen-go-svcintf: the service-interface generator (comment         *)
(* normalizer, signature synthesizer, interface emitter, dispatch table    *)
(* builder, help table builder).                                           *)
(*                                                                         *)
(* Text is modelled as a sequence of one-character strings; an emitted     *)
(* line (one g.P call) is the sequence of the pieces the call prints, in   *)
(* order, so that the text of a line is the concatenation of its pieces.   *)
(*                                                                         *)
(* rates: the exchange-rate poller (Rates.Run and its ticker, the fetches  *)
(* from dcrdata and bittrex) and the accessors Rates.Get and Rates.Set,    *)
(* each statement of a goroutine one step.                                 *)
(***************************************************************************)
EXTENDS Integers, Sequences, FiniteSets, TLC

VARIABLES
    protoFile,  \* Spec: the schema file descriptor given to the generator
    genFiles,   \* Spec: the files the plugin has generated, in order
    ret,        \* Spec: what the last generateFile call returned
    runs,       \* Spec: number of generateFile calls made
    comments,   \* SpecNorm: the argument of the current commentsToStr call
    str,        \* SpecNorm: the expression the last call returned
    text,       \* SpecNorm: the text content of that expression
    passes,     \* SpecNorm: number of commentsToStr calls made
    wA, wB,     \* SpecWrap: the two single-line texts
    wOut,       \* SpecWrap: results of commentsToStr per separator
    dcrPrice,   \* rates: Rates.dcrPrice
    btcPrice,   \* rates: Rates.btcPrice
    mtx,        \* rates: Rates.mtx, "none" or the goroutine that holds it
    pc,         \* rates: the statement each goroutine is at
    pending,    \* rates: the pair a goroutine is about to store (the decoded
                \*        response of a fetch, the parameters of Set)
    got,        \* rates: the local dcrPrice, btcPrice of Get
    failedTries,\* rates: Run's failedTries
    ticker,     \* rates: Run's ticker t: running or stopped, its period,
                \*        the ticks buffered in t.C
    ctxDone,    \* rates: Run's context has been cancelled
    elapsed,    \* rates: the interval armed by NewTicker or by the last
                \*        Reset has elapsed (the ticker has fired since)
    last,       \* rates: the pair of the most recent completed update
    seen,       \* rates: the value of last when Get took the mutex
    fails,      \* rates: consecutive ticks in which both fetches failed
    warns       \* rates: warning-level reports since the last success

genVars == <<protoFile, genFiles, ret, runs>>
normVars == <<comments, str, text, passes>>
wrapVars == <<wA, wB, wOut>>
ratesVars == <<dcrPrice, btcPrice, mtx, pc, pending, got, failedTries, ticker,
               ctxDone, elapsed, last, seen, fails, warns>>
vars == <<protoFile, genFiles, ret, runs, comments, str, text, passes, wA, wB, wOut,
          dcrPrice, btcPrice, mtx, pc, pending, got, failedTries, ticker,
          ctxDone, elapsed, last, seen, fails, warns>>

\* rates.New(cfg): the zero Rates, no goroutine started
New ==
    /\ dcrPrice = 0 /\ btcPrice = 0
    /\ mtx = "none"
    /\ pc = [run |-> "start", get |-> "idle", set |-> "idle"]
    /\ pending = [run |-> <<0, 0>>, set |-> <<0, 0>>]
    /\ got = <<0, 0>>
    /\ failedTries = 0
    /\ ticker = [active |-> FALSE, period |-> "ns", C |-> 0]
    /\ ctxDone = FALSE
    /\ elapsed = FALSE
    /\ last = <<0, 0>> /\ seen = <<0, 0>>
    /\ fails = 0 /\ warns = 0

(***************************************************************************)
(* Bounds.                                                                 *)
(***************************************************************************)
\* longest comment text given to commentsToStr in SpecNorm
MaxLen == 4
\* longest single-line part (a, b) in SpecWrap
MaxPart == 2
\* most methods a service of the schema declares
MaxMethods == 2
\* most fields a message of the schema declares
MaxFields == 2
\* most consecutive failed ticks of Run in SpecRun
MaxTries == 22
\* most consecutive failed ticks of Run in SpecRates
MaxFails == 2
\* most generateFile calls on the same schema file
MaxRuns == 2

NL == "\n"
QUOTE == "\""
BSL == "\\"

\* the characters comment texts are drawn from
Chars == {"w", " ", NL, QUOTE, BSL}
LineChars == Chars \ {NL}

Texts(S, n) == UNION {[1..k -> S] : k \in 0..n}

(***************************************************************************)
(* Go string helpers used by the comment normalizer.                       *)
(***************************************************************************)
\* unicode.IsSpace restricted to the ASCII white space
IsSpace(ch) == ch \in {" ", "\t", NL, "\r", "\f"}

\* strings.TrimSuffix(s, "\n")
TrimSuffix(s) ==
    IF Len(s) > 0 /\ s[Len(s)] = NL THEN SubSeq(s, 1, Len(s) - 1) ELSE s

RECURSIVE TrimLeft(_)
TrimLeft(s) ==
    IF Len(s) > 0 /\ IsSpace(s[1]) THEN TrimLeft(Tail(s)) ELSE s

RECURSIVE TrimRight(_)
TrimRight(s) ==
    IF Len(s) > 0 /\ IsSpace(s[Len(s)])
    THEN TrimRight(SubSeq(s, 1, Len(s) - 1)) ELSE s

\* strings.TrimSpace(s)
TrimSpace(s) == TrimRight(TrimLeft(s))

\* strings.Split(s, "\n"): always at least one element
RECURSIVE Split(_)
Split(s) ==
    IF \A i \in 1..Len(s) : s[i] # NL THEN <<s>>
    ELSE LET i == CHOOSE j \in 1..Len(s) :
                      s[j] = NL /\ \A k \in 1..(j - 1) : s[k] # NL
         IN  <<SubSeq(s, 1, i - 1)>> \o Split(SubSeq(s, i + 1, Len(s)))

\* re.FindAllSubmatchIndex for the pattern ([^\n])(\n): the leftmost
\* non-overlapping matches, each <<v0, v1, g1s, g1e, g2s, g2e>> in Go's
\* 0-based half-open offsets, scanning from offset `from`.
RECURSIVE FindAllSubmatchIndex(_, _)
FindAllSubmatchIndex(s, from) ==
    IF from + 2 > Len(s) THEN <<>>
    ELSE IF s[from + 1] # NL /\ s[from + 2] = NL
         THEN <<<<from, from + 2, from, from + 1, from + 1, from + 2>>>>
              \o FindAllSubmatchIndex(s, from + 2)
         ELSE FindAllSubmatchIndex(s, from + 1)

\* str[a:b]
Slice(s, a, b) == SubSeq(s, a + 1, b)

\* the match groups of one match: groups[i/2] = str[v[i]:v[i+1]]
Groups(s, v) == [k \in 1..(Len(v) \div 2) |-> Slice(s, v[2 * k - 1], v[2 * k])]

\* the replacement closure of commentsToStr: g[1] + " "  (Go's g[i] is g[i + 1]
\* here, sequences being 1-based)
JoinReplKeep(g) == g[1]
JoinReplNoSpace(g) == g[2]
JoinRepl(g) == g[2] \o <<" ">>

\* replaceAllStringSubmatchFunc(re, c, repl) for the pattern and closure above
replaceAllStringSubmatchFunc(s) ==
    LET ms == FindAllSubmatchIndex(s, 0)
        \* acc[k] = <<result, lastIndex>> after the first k matches
        acc[k \in 0..Len(ms)] ==
            IF k = 0 THEN <<<<>>, 0>>
            ELSE LET v == ms[k]
                     p == acc[k - 1]
                 IN  <<p[1] \o Slice(s, p[2], v[1]) \o JoinRepl(Groups(s, v)),
                       v[2]>>
        fin == acc[Len(ms)]
    IN  fin[1] \o Slice(s, fin[2], Len(s))

\* the lines commentsToStr iterates over
CommentLines(c) == Split(replaceAllStringSubmatchFunc(TrimSuffix(c)))

\* one iteration of the builder loop of commentsToStr
WriteLineSkipEmpty(c, i, l) ==
    IF TrimSpace(c) = <<>> THEN <<>>
    ELSE <<QUOTE>> \o TrimSpace(c)
         \o (IF i < l - 1 THEN <<BSL, "n", QUOTE, "+", NL>> ELSE <<QUOTE>>)
WriteLine(c, i, l) ==
    <<QUOTE>> \o TrimSpace(c)
    \o (IF i < l - 1 THEN <<BSL, "n", QUOTE, "+", NL>> ELSE <<QUOTE>>)

commentsToStr(c) ==
    LET lines == CommentLines(c)
        l == Len(lines)
        b[k \in 0..l] ==
            IF k = 0 THEN (IF l = 0 THEN <<QUOTE, QUOTE>> ELSE <<>>)
            ELSE b[k - 1] \o WriteLine(lines[k], k - 1, l)
    IN  b[l]

(***************************************************************************)
(* What the returned expression is meant to denote.                        *)
(***************************************************************************)
\* the trimmed lines joined by the embedded newlines
RECURSIVE JoinNL(_)
JoinNL(ls) ==
    IF Len(ls) = 0 THEN <<>>
    ELSE IF Len(ls) = 1 THEN ls[1]
    ELSE ls[1] \o <<NL>> \o JoinNL(Tail(ls))

NormalizedText(c) ==
    LET lines == CommentLines(c)
    IN  JoinNL([k \in 1..Len(lines) |-> TrimSpace(lines[k])])

\* Go's reading of a '+'-joined sequence of interpreted string literals:
\* <<ok, value>>.  st is "out" (between literals, a literal must start),
\* "in" (inside a literal), "esc" (after a backslash), "after" (a literal
\* has closed: end of expression or '+').
RECURSIVE DecodeFrom(_, _, _, _)
DecodeFrom(e, i, st, val) ==
    IF i > Len(e) THEN <<st = "after", val>>
    ELSE LET ch == e[i] IN
         CASE st = "out" ->
                  IF ch = QUOTE THEN DecodeFrom(e, i + 1, "in", val)
                  ELSE IF IsSpace(ch) THEN DecodeFrom(e, i + 1, "out", val)
                  ELSE <<FALSE, val>>
           [] st = "in" ->
                  IF ch = QUOTE THEN DecodeFrom(e, i + 1, "after", val)
                  ELSE IF ch = BSL THEN DecodeFrom(e, i + 1, "esc", val)
                  ELSE IF ch = NL THEN <<FALSE, val>>
                  ELSE DecodeFrom(e, i + 1, "in", Append(val, ch))
           [] st = "esc" ->
                  IF ch = "n" THEN DecodeFrom(e, i + 1, "in", Append(val, NL))
                  ELSE IF ch \in {QUOTE, BSL}
                       THEN DecodeFrom(e, i + 1, "in", Append(val, ch))
                  ELSE <<FALSE, val>>
           [] st = "after" ->
                  IF ch = "+" THEN DecodeFrom(e, i + 1, "out", val)
                  ELSE IF ch = " " THEN DecodeFrom(e, i + 1, "after", val)
                  ELSE <<FALSE, val>>

Decode(e) == DecodeFrom(e, 1, "out", <<>>)

(***************************************************************************)
(* The generated file g: the lines printed so far (one per g.P call, each  *)
(* the sequence of its pieces) and the annotated symbols.  A generator     *)
(* function, which only ever appends to g, is modelled by what it appends: *)
(* a record of the same shape, put behind g by Then.                       *)
(***************************************************************************)
\* gen.NewGeneratedFile(filename, file.GoImportPath): a fresh, empty buffer,
\* whatever files the plugin generated before
NewGeneratedFileReuse(plugin) ==
    IF plugin = <<>> THEN [lines |-> <<>>, annotations |-> {}]
    ELSE plugin[Len(plugin)]
NewGeneratedFile(plugin) == [lines |-> <<>>, annotations |-> {}]

\* a followed by b
Then(a, b) ==
    [lines |-> a.lines \o b.lines,
     annotations |-> a.annotations \cup b.annotations]

\* g.P(pieces...)
P(pieces) == [lines |-> <<pieces>>, annotations |-> {}]

\* consecutive g.P calls, one per element of ls
PP(ls) == [lines |-> ls, annotations |-> {}]

\* g.Annotate(symbol, location)
Annotate(symbol) == [lines |-> <<>>, annotations |-> {symbol}]

\* the statements ds[1]; ds[2]; ...
RECURSIVE Do(_)
Do(ds) ==
    IF ds = <<>> THEN PP(<<>>)
    ELSE IF Len(ds) = 1 THEN ds[1]
    ELSE Then(ds[1], Do(Tail(ds)))

deprecationComment == "// Deprecated: Do not use."

\* g.QualifiedGoIdent(contextPackage.Ident("Context")) and the idents printed
\* by g.P
ctxIdent == "context.Context"
protoMsgIdent == "proto.Message"
protoDescriptorIdent == "protoreflect.MessageDescriptor"

\* protogen.Comments.String(), which g.P applies to a Comments argument:
\* every line of the comment behind "//", each ended by a newline
CommentsString(c) ==
    IF c = <<>> THEN <<>>
    ELSE LET lines == Split(TrimSuffix(c))
             b[k \in 0..Len(lines)] ==
                 IF k = 0 THEN <<>>
                 ELSE b[k - 1] \o <<"//">> \o lines[k] \o <<NL>>
         IN  b[Len(lines)]

IsStreaming(method) == method.IsStreamingClient \/ method.IsStreamingServer

(***************************************************************************)
(* Signature synthesizer.                                                  *)
(***************************************************************************)
clientSignatureSwapped(method) ==
    <<method.GoName, "(ctx ", ctxIdent>>
    \o (IF ~method.IsStreamingServer THEN <<", in *", method.Input>> ELSE <<>>)
    \o (IF ~method.IsStreamingClient THEN <<", out *", method.Output>> ELSE <<>>)
    \o <<") (">>
    \o (IF IsStreaming(method)
        THEN <<method.Parent, "_", method.GoName, "Client", ",">> ELSE <<>>)
    \o <<"error)">>
clientSignature(method) ==
    <<method.GoName, "(ctx ", ctxIdent>>
    \o (IF ~method.IsStreamingClient THEN <<", in *", method.Input>> ELSE <<>>)
    \o (IF ~method.IsStreamingServer THEN <<", out *", method.Output>> ELSE <<>>)
    \o <<") (">>
    \o (IF IsStreaming(method)
        THEN <<method.Parent, "_", method.GoName, "Client", ",">> ELSE <<>>)
    \o <<"error)">>

\* strings.Join(args, ", ") over piece sequences
RECURSIVE JoinArgs(_)
JoinArgs(args) ==
    IF Len(args) = 0 THEN <<>>
    ELSE IF Len(args) = 1 THEN args[1]
    ELSE args[1] \o <<", ">> \o JoinArgs(Tail(args))

serverSignature(method) ==
    LET reqArgs ==
            <<<<ctxIdent>>>>
            \o (IF ~method.IsStreamingClient
                THEN <<<<"*", method.Input>>>> ELSE <<>>)
            \o (IF IsStreaming(method)
                THEN <<<<method.Parent, "_", method.GoName, "Server">>>>
                ELSE <<<<"*", method.Output>>>>)
    IN  <<method.GoName, "(">> \o JoinArgs(reqArgs) \o <<") ", "error">>

(***************************************************************************)
(* Interface emitter.                                                      *)
(***************************************************************************)
genClientMethod(method, index) ==
    LET service == method.Parent
        isStreaming == IsStreaming(method)
        genRecv == method.IsStreamingServer
        implName == <<"client_", service>>
    IN  PP((IF isStreaming
            THEN <<<<"type ", service, "_", method.GoName,
                     "Client interface {">>>>
                 \o (IF genRecv
                     THEN <<<<"Recv(*", method.Output, ") error">>>>
                     ELSE <<>>)
                 \o <<<<"}">>, <<>>>>
            ELSE <<>>)
           \o <<<<"func (c *">> \o implName \o <<") ">>
                \o clientSignature(method) \o <<"{">>>>
           \o (IF ~isStreaming
               THEN << <<"const method = \"", method.GoName, "\"">>,
                       <<"return c.defn.Methods[method].ClientHandler(c.c, ctx, in, out)">> >>
               ELSE << <<"const method = \"", method.GoName, "\"">>,
                       <<"inner, err := c.defn.Methods[method].ClientStreamHandler(c.c, ctx, in)">>,
                       <<"if err != nil { return nil, err } ">>,
                       <<"return streamerImpl[*", method.Output,
                         "]{c: inner}, nil">> >>)
           \o << <<"}">>, <<>> >>)

\* what it prints, and the handler name it returns: <<printed, hname>>
genServerMethodNoReturn(method) ==
    LET service == method.Parent
        hname == <<"_", service, "_", method.GoName, "_Handler">>
        genSend == method.IsStreamingServer
        typ == <<service, "_", method.GoName, "Server">>
    IN  <<PP(<<<<"type ">> \o typ \o <<" interface {">>>>
             \o (IF genSend
                 THEN <<<<"Send(m *", method.Output, ") error ">>>>
                 ELSE <<>>)
             \o << <<"}">>, <<>> >>),
          hname>>
genServerMethod(method) ==
    LET service == method.Parent
        hname == <<"_", service, "_", method.GoName, "_Handler">>
        genSend == method.IsStreamingServer
        typ == <<service, "_", method.GoName, "Server">>
    IN  IF ~method.IsStreamingClient /\ ~method.IsStreamingServer
        THEN <<PP(<<>>), hname>>
        ELSE <<PP(<<<<"type ">> \o typ \o <<" interface {">>>>
                  \o (IF genSend
                      THEN <<<<"Send(m *", method.Output, ") error ">>>>
                      ELSE <<>>)
                  \o << <<"}">>, <<>> >>),
               hname>>

\* serviceGenerateHelper.generateServerFunctions
generateServerFunctions(service) ==
    LET n == Len(service.Methods)
        \* acc[k] = <<printed, handlerNames>> after the first k methods
        acc[k \in 0..n] ==
            IF k = 0 THEN <<PP(<<>>), <<>>>>
            ELSE LET r == genServerMethod(service.Methods[k])
                 IN  <<Then(acc[k - 1][1], r[1]), Append(acc[k - 1][2], r[2])>>
    IN  acc[n][1]

\* one iteration of an interface loop of genService: the method of the
\* client interface (sig = clientSignature) or of the server interface
InterfaceMethodDocFirst(typeName, method, sig) ==
    Then(Annotate(typeName \o <<".", method.GoName>>),
         PP((IF method.Leading # <<>>
             THEN <<CommentsString(method.Leading)>> ELSE <<>>)
            \o (IF method.Deprecated THEN <<<<deprecationComment>>>> ELSE <<>>)
            \o <<sig>>))
InterfaceMethod(typeName, method, sig) ==
    Then(Annotate(typeName \o <<".", method.GoName>>),
         PP((IF method.Deprecated THEN <<<<deprecationComment>>>> ELSE <<>>)
            \o <<CommentsString(method.Leading) \o sig>>))

\* methodIndex (streaming = FALSE) or streamIndex (streaming = TRUE) of
\* genService when it reaches the k-th method
IndexOf(methods, k, streaming) ==
    Cardinality({j \in 1..(k - 1) : IsStreaming(methods[j]) = streaming})

(***************************************************************************)
(* Dispatch table builder.                                                 *)
(***************************************************************************)
\* the transport-level method string of a handler closure
MethodStringFullName(svc, meth) ==
    <<"method := \"", "/", svc.GoName, "/", meth.GoName, "\"">>
MethodString(svc, meth) ==
    <<"method := \"", svc.GoName, ".", meth.GoName, "\"">>

\* the methods genServiceDef ranges over
DefnMethodsNotDeprecated(svc) ==
    SelectSeq(svc.Methods, LAMBDA m : ~m.Deprecated)
DefnMethods(svc) == svc.Methods

\* the value printed for the IsStreaming field of an entry
EntryIsStreamingEither(meth) == IsStreaming(meth)
EntryIsStreaming(meth) == meth.IsStreamingServer

\* one iteration of the loop of genServiceDef: the entry of one method
MethodDefnEntry(svc, meth) ==
    LET svrTyp == <<meth.Parent, "Server">>
    IN  PP(<< <<"\"", meth.GoName, "\": {">>,
              <<"IsStreaming: ",
                IF EntryIsStreaming(meth) THEN "true" ELSE "false", ",">>,
              <<"NewRequest: func() ", protoMsgIdent,
                " { return new(", meth.Input, ")},">>,
              <<"NewResponse: func() ", protoMsgIdent,
                " { return new(", meth.Output, ")},">>,
              <<"RequestDefn: func() ", protoDescriptorIdent,
                " { return new(", meth.Input,
                ").ProtoReflect().Descriptor()},">>,
              <<"ResponseDefn: func() ", protoDescriptorIdent,
                " { return new(", meth.Output,
                ").ProtoReflect().Descriptor()},">>,
              <<"Help: ">> \o commentsToStr(meth.Leading) \o <<",">> >>
           \o (IF ~meth.IsStreamingServer
               THEN << <<"ServerHandler: func(x interface{}, ctx ", ctxIdent,
                         ", request, response ", protoMsgIdent, ") error {">>,
                       <<"return x.(">> \o svrTyp \o <<").", meth.GoName,
                         "(ctx, request.(*", meth.Input, "), response.(*",
                         meth.Output, "))">>,
                       <<"},">>,
                       <<"ClientHandler: func(conn ClientConn, ctx ",
                         ctxIdent, ", request, response ", protoMsgIdent,
                         ") error {">>,
                       MethodString(svc, meth),
                       <<"return conn.Request(ctx, method, request, response)">>,
                       <<"},">> >>
               ELSE << <<"ServerStreamHandler: func(x interface{}, ctx ",
                         ctxIdent, ", request ", protoMsgIdent,
                         ", stream ServerStream) error {">>,
                       <<"return x.(">> \o svrTyp \o <<").", meth.GoName,
                         "(ctx, request.(*", meth.Input, "), streamerImpl[*",
                         meth.Output, "]{s: stream})">>,
                       <<"},">>,
                       <<"ClientStreamHandler: func(conn ClientConn, ctx ",
                         ctxIdent, ", request ", protoMsgIdent,
                         ") (ClientStream, error) {">>,
                       MethodString(svc, meth),
                       <<"return conn.Stream(ctx, method, request)">>,
                       <<"},">> >>)
           \o << <<"},">> >>)

genServiceDef(svc) ==
    LET meths == DefnMethods(svc)
        n == Len(meths)
        entries[k \in 0..n] ==
            IF k = 0 THEN PP(<<>>)
            ELSE Then(entries[k - 1], MethodDefnEntry(svc, meths[k]))
    IN  Do(<<PP(<< <<"func ", svc.GoName, "Defn() ServiceDefn { ">>,
                   <<"return ServiceDefn {">>,
                   <<"Name: \"", svc.GoName, "\",">>,
                   <<"Methods: map[string]MethodDefn{">> >>),
             entries[n],
             PP(<< <<"},">>, <<"}">>, <<"}">>, <<>> >>)>>)

genService(service) ==
    LET n == Len(service.Methods)
        clientName == <<service.GoName, "Client">>
        serverType == <<service.GoName, "Server">>
        implName == <<"client_", service.GoName>>
        dep == IF service.Deprecated
               THEN << <<"//">>, <<deprecationComment>> >> ELSE <<>>
        \* the loop of the client interface
        ci[k \in 0..n] ==
            IF k = 0 THEN PP(<<>>)
            ELSE Then(ci[k - 1],
                      InterfaceMethod(clientName, service.Methods[k],
                                      clientSignature(service.Methods[k])))
        \* the loop of the client method implementations
        cm[k \in 0..n] ==
            IF k = 0 THEN PP(<<>>)
            ELSE Then(cm[k - 1],
                      genClientMethod(service.Methods[k],
                          IndexOf(service.Methods, k,
                                  IsStreaming(service.Methods[k]))))
        \* the loop of the server interface
        si[k \in 0..n] ==
            IF k = 0 THEN PP(<<>>)
            ELSE Then(si[k - 1],
                      InterfaceMethod(serverType, service.Methods[k],
                                      serverSignature(service.Methods[k])))
    IN  Do(<<PP(<<<<"// ">> \o clientName \o <<" is the client API for ",
                    service.GoName, " service.">>>> \o dep),
             Annotate(clientName),
             P(<<"type ">> \o clientName \o <<" interface {">>),
             ci[n],
             PP(<< <<"}">>, <<>>,
                   <<"type ">> \o implName \o <<" struct {">>,
                   <<"c ClientConn">>,
                   <<"defn ServiceDefn">>,
                   <<"}">> >>),
             cm[n],
             PP(<< <<"func New">> \o clientName \o <<"(c ClientConn)">>
                     \o clientName \o <<"{">>,
                   <<"return &client_", service.GoName, "{c: c, defn: ",
                     service.GoName, "Defn()}">>,
                   <<"}">>, <<>> >>),
             PP(<<<<"// ">> \o serverType \o <<" is the server API for ",
                    service.GoName, " service.">>>> \o dep),
             Annotate(serverType),
             P(<<"type ">> \o serverType \o <<" interface {">>),
             si[n],
             PP(<< <<"}">>, <<>> >>),
             generateServerFunctions(service),
             genServiceDef(service)>>)

(***************************************************************************)
(* Help table builder.                                                     *)
(***************************************************************************)
\* the fields genFieldHelps ranges over for one message
HelpFieldsNone(msg) == <<>>
HelpFields(msg) == msg.Fields

\* one iteration of the message loop of genFieldHelps
MessageHelp(msg) ==
    LET flds == HelpFields(msg)
        n == Len(flds)
        acc[k \in 0..n] ==
            IF k = 0 THEN <<>>
            ELSE acc[k - 1]
                 \o << <<"\"", flds[k].Name, "\": ">>,
                       commentsToStr(flds[k].Leading) \o <<",">> >>
    IN  PP(<< <<"\"", msg.GoName, "\": {">>,
              <<"\"@\":">>,
              commentsToStr(msg.Leading) \o <<",">> >>
           \o acc[n]
           \o << <<"},">> >>)

genFieldHelps(file) ==
    LET n == Len(file.Messages)
        varName == "help_messages"
        acc[k \in 0..n] ==
            IF k = 0 THEN PP(<<>>)
            ELSE Then(acc[k - 1], MessageHelp(file.Messages[k]))
    IN  Do(<<P(<<"var ", varName, " = map[string]map[string]string{">>),
             acc[n],
             PP(<< <<"}">>, <<>> >>)>>)

(***************************************************************************)
(* File generation.                                                        *)
(***************************************************************************)
genLeadingComments(loc) ==
    LET n == Len(loc.LeadingDetachedComments)
        acc[k \in 0..n] ==
            IF k = 0 THEN PP(<<>>)
            ELSE Then(acc[k - 1],
                      PP(<<CommentsString(loc.LeadingDetachedComments[k]),
                           <<>>>>))
    IN  IF loc.LeadingComments # <<>>
        THEN Then(acc[n], PP(<<CommentsString(loc.LeadingComments), <<>>>>))
        ELSE acc[n]

generateFileContent(file) ==
    IF Len(file.Services) = 0 THEN PP(<<>>)
    ELSE LET n == Len(file.Services)
             acc[k \in 0..n] ==
                 IF k = 0 THEN PP(<<>>)
                 ELSE Then(acc[k - 1], genService(file.Services[k]))
         IN  Then(acc[n], genFieldHelps(file))

\* generateFile once the file is known to declare a service: g when it is
\* returned
generateFileBody(g, file) ==
    Do(<<g,
         genLeadingComments(file.SyntaxLoc),
         PP(<< <<"// Code generated by protoc-gen-go-svcintf. DO NOT EDIT.">>,
               IF file.Deprecated
               THEN <<"// ", file.Path, " is a deprecated file.">>
               ELSE <<"// source: ", file.Path>>,
               <<>> >>),
         genLeadingComments(file.PackageLoc),
         PP(<< <<"package ", file.GoPackageName>>, <<>> >>),
         generateFileContent(file)>>)

(***************************************************************************)
(* The schema files the generator is run on.                               *)
(***************************************************************************)
ServiceNames == <<"Alpha", "Beta">>
MethodNames == <<"Get", "Sub", "Put", "Del">>
MessageNames == <<"Req", "Info">>
FieldNames == <<"id", "name", "note", "tag">>

\* leading comments as protogen hands them over: none, or two comment lines
Docs == {<<>>, <<" ", "d", NL, " ", "e", NL>>}

NoLoc == [LeadingDetachedComments |-> <<>>, LeadingComments |-> <<>>]

MethodOpts(css, docs, deps) ==
    [cs : css, ss : BOOLEAN, dep : deps, doc : docs]

Method(svcName, k, o) ==
    [GoName |-> MethodNames[k], Parent |-> svcName,
     IsStreamingClient |-> o.cs, IsStreamingServer |-> o.ss,
     Deprecated |-> o.dep, Leading |-> o.doc,
     Input |-> "Req", Output |-> "Resp"]

\* the method lists of at most MaxMethods methods, named by position
MethodLists(svcName, opts) ==
    UNION {{[k \in 1..n |-> Method(svcName, k, os[k])] : os \in [1..n -> opts]}
           : n \in 0..MaxMethods}

ServicesNamed(svcName, deps, opts) ==
    {[GoName |-> svcName, Deprecated |-> d, Methods |-> ms]
     : d \in deps, ms \in MethodLists(svcName, opts)}

FieldLists ==
    UNION {{[k \in 1..n |-> [Name |-> FieldNames[k], Leading |-> ds[k]]]
            : ds \in [1..n -> Docs]} : n \in 0..MaxFields}

MessagesNamed(name) ==
    {[GoName |-> name, Leading |-> d, Fields |-> fs]
     : d \in Docs, fs \in FieldLists}

\* every sub-list of MessageNames, each message with any comment and fields
MessageLists ==
    {<<>>}
    \cup {<<m>> : m \in MessagesNamed(MessageNames[1])}
    \cup {<<m>> : m \in MessagesNamed(MessageNames[2])}
    \cup {<<m, n>> : m \in MessagesNamed(MessageNames[1]),
                     n \in MessagesNamed(MessageNames[2])}

PlainMessages ==
    <<[GoName |-> "Req", Leading |-> <<>>,
       Fields |-> <<[Name |-> "id", Leading |-> <<>>]>>],
      [GoName |-> "Resp", Leading |-> <<>>, Fields |-> <<>>]>>

File(services, messages) ==
    [Services |-> services, Messages |-> messages, Deprecated |-> FALSE,
     Path |-> "svc.proto", GoPackageName |-> "types",
     SyntaxLoc |-> NoLoc, PackageLoc |-> NoLoc]

NoFile == File(<<>>, <<>>)

\* every combination of the streaming flags
PlainOpts == MethodOpts(BOOLEAN, {<<>>}, {FALSE})
\* unary or server-streaming, with every deprecation flag and comment
RichOpts == MethodOpts({FALSE}, Docs, BOOLEAN)
\* unary or server-streaming
ServerOpts == MethodOpts({FALSE}, {<<>>}, {FALSE})

\* one service, deprecated or not, of documented and deprecated methods
FilesOneService ==
    {File(<<s>>, PlainMessages)
     : s \in ServicesNamed(ServiceNames[1], BOOLEAN, RichOpts)}

\* two services, the methods of the first with every combination of the
\* streaming flags
FilesTwoServices ==
    {File(<<s, t>>, PlainMessages)
     : s \in ServicesNamed(ServiceNames[1], {FALSE}, PlainOpts),
       t \in ServicesNamed(ServiceNames[2], {FALSE}, ServerOpts)}

\* no service, a unary one or a server-streaming one, with every message list
FilesMessages ==
    {File(ss, ms)
     : ss \in {<<>>}
              \cup {<<[GoName |-> ServiceNames[1], Deprecated |-> FALSE,
                       Methods |-> <<Method(ServiceNames[1], 1, o)>>]>>
                    : o \in ServerOpts},
       ms \in MessageLists}

Files == FilesOneService \cup FilesTwoServices \cup FilesMessages

(***************************************************************************)
(* Spec: generateFile run on a schema file, MaxRuns times.                 *)
(***************************************************************************)
Init ==
    /\ protoFile \in Files
    /\ genFiles = <<>>
    /\ ret = "none"
    /\ runs = 0
    /\ comments = <<>> /\ str = <<>> /\ text = <<>> /\ passes = 0
    /\ wA = <<>> /\ wB = <<>> /\ wOut = <<>>
    /\ New

\* generateFile(gen, file): nil for a file without services, else the new
\* generated file, which the plugin keeps
GenerateFile ==
    /\ runs < MaxRuns
    /\ runs' = runs + 1
    /\ IF Len(protoFile.Services) = 0
       THEN /\ ret' = "nil"
            /\ genFiles' = genFiles
       ELSE /\ ret' = "g"
            /\ genFiles' = Append(genFiles,
                   generateFileBody(NewGeneratedFile(genFiles), protoFile))
    /\ UNCHANGED <<protoFile, normVars, wrapVars, ratesVars>>

Next == GenerateFile

Spec == Init /\ [][Next]_vars

(***************************************************************************)
(* SpecNorm: commentsToStr applied to a text, then to what it produced.    *)
(***************************************************************************)
InitNorm ==
    /\ comments \in Texts(Chars, MaxLen)
    /\ str = <<>>
    /\ text = <<>>
    /\ passes = 0
    /\ wA = <<>> /\ wB = <<>> /\ wOut = <<>>
    /\ protoFile = NoFile /\ genFiles = <<>> /\ ret = "none" /\ runs = 0
    /\ New

\* the first call
Normalize ==
    /\ passes = 0
    /\ str' = commentsToStr(comments)
    /\ text' = NormalizedText(comments)
    /\ passes' = 1
    /\ UNCHANGED <<comments, wrapVars, genVars, ratesVars>>

\* a further call, on the text content the previous call produced
Renormalize ==
    /\ passes = 1
    /\ comments' = text
    /\ str' = commentsToStr(comments')
    /\ text' = NormalizedText(comments')
    /\ passes' = 2
    /\ UNCHANGED <<wrapVars, genVars, ratesVars>>

NextNorm == Normalize \/ Renormalize

SpecNorm == InitNorm /\ [][NextNorm]_vars

(***************************************************************************)
(* SpecWrap: commentsToStr applied to a and b joined by a soft wrap, by a  *)
(* space and by a paragraph break.                                         *)
(***************************************************************************)
Seps == {"soft", "space", "para"}

SepText(sep) ==
    CASE sep = "soft" -> <<NL>>
      [] sep = "space" -> <<" ">>
      [] sep = "para" -> <<NL, NL>>

InitWrap ==
    /\ wA \in Texts(LineChars, MaxPart)
    /\ wB \in Texts(LineChars, MaxPart)
    /\ wOut = <<>>
    /\ comments = <<>> /\ str = <<>> /\ text = <<>> /\ passes = 0
    /\ protoFile = NoFile /\ genFiles = <<>> /\ ret = "none" /\ runs = 0
    /\ New

\* one call of commentsToStr on a + sep + b
WrapCall(sep) ==
    /\ sep \notin DOMAIN wOut
    /\ wOut' = wOut @@ (sep :> commentsToStr(wA \o SepText(sep) \o wB))
    /\ UNCHANGED <<wA, wB, normVars, genVars, ratesVars>>

NextWrap == \E sep \in Seps : WrapCall(sep)

SpecWrap == InitWrap /\ [][NextWrap]_vars

(***************************************************************************)
(* rates: Rates.Run, Rates.Get, Rates.Set.                                 *)
(*                                                                         *)
(* Goroutines: "run" executes Run, "get" calls Get and "set" calls Set,    *)
(* again and again.  The ticker is the runtime's: while it runs it sends   *)
(* a tick into the one-slot channel t.C every period and drops the tick    *)
(* when the slot is full; Stop and Reset leave the slot as it is (the Go   *)
(* releases the repository builds with, 1.20 and 1.21).  The first ticker  *)
(* has a period of one nanosecond and can fire between any two statements;*)
(* a period of 30 seconds or 10 minutes elapses only while Run waits in    *)
(* its select.                                                             *)
(***************************************************************************)
shortTimeout == "30s"
longTimeout == "10m"
triesBeforeErr == 20

Goroutines == {"run", "get", "set"}

\* the prices a fetch can decode, the prices Set is called with
Prices == {1, 2}
OnePrice == {1}

otherVars == <<protoFile, genFiles, ret, runs, comments, str, text, passes,
               wA, wB, wOut>>

At(g, label) == pc[g] = label
Goto(g, label) == pc' = [pc EXCEPT ![g] = label]

\* r.mtx.Lock() returns once no goroutine holds the mutex
CanLockAlways(g) == TRUE
CanLock(g) == mtx = "none"

\* the test that guards the warning-level reports of Run
ShouldWarnFrom(n) == n >= triesBeforeErr
ShouldWarn(n) == n = triesBeforeErr

\* t.Reset(d): the ticker runs with period d, from now
Reset(d) ==
    /\ ticker' = [ticker EXCEPT !.active = TRUE, !.period = d]
    /\ elapsed' = FALSE

\* t := time.NewTicker(1)
RunStart ==
    /\ At("run", "start")
    /\ ticker' = [active |-> TRUE, period |-> "ns", C |-> 0]
    /\ Goto("run", "select")
    /\ UNCHANGED <<dcrPrice, btcPrice, mtx, pending, got, failedTries,
                   ctxDone, elapsed, last, seen, fails, warns, otherVars>>

\* the runtime: a period of the running ticker has elapsed
TickerFire ==
    /\ ticker.active
    /\ ticker.period = "ns" \/ At("run", "select")
    /\ ticker' = [ticker EXCEPT !.C = 1]
    /\ elapsed' = TRUE
    /\ UNCHANGED <<dcrPrice, btcPrice, mtx, pc, pending, got, failedTries,
                   ctxDone, last, seen, fails, warns, otherVars>>

\* the caller of Run cancels ctx
Cancel ==
    /\ ~ctxDone
    /\ ctxDone' = TRUE
    /\ UNCHANGED <<dcrPrice, btcPrice, mtx, pc, pending, got, failedTries,
                   ticker, elapsed, last, seen, fails, warns, otherVars>>

\* case <-ctx.Done(): return, and the deferred t.Stop()
CtxDone ==
    /\ At("run", "select")
    /\ ctxDone
    /\ ticker' = [ticker EXCEPT !.active = FALSE]
    /\ Goto("run", "done")
    /\ UNCHANGED <<dcrPrice, btcPrice, mtx, pending, got, failedTries,
                   ctxDone, elapsed, last, seen, fails, warns, otherVars>>

\* case <-t.C: a buffered tick is received and a fetch attempt starts
RecvTick ==
    /\ At("run", "select")
    /\ ticker.C = 1
    /\ ticker' = [ticker EXCEPT !.C = 0]
    /\ Goto("run", "stop")
    /\ UNCHANGED <<dcrPrice, btcPrice, mtx, pending, got, failedTries,
                   ctxDone, elapsed, last, seen, fails, warns, otherVars>>

\* t.Stop()
StopTicker ==
    /\ At("run", "stop")
    /\ ticker' = [ticker EXCEPT !.active = FALSE]
    /\ Goto("run", "dcrData")
    /\ UNCHANGED <<dcrPrice, btcPrice, mtx, pending, got, failedTries,
                   ctxDone, elapsed, last, seen, fails, warns, otherVars>>

\* r.dcrData(rctx): the request and the decoding succeed with the pair d, b
DcrDataOk(d, b) ==
    /\ At("run", "dcrData")
    /\ ~ctxDone
    /\ pending' = [pending EXCEPT !.run = <<d, b>>]
    /\ Goto("run", "lock")
    /\ UNCHANGED <<dcrPrice, btcPrice, mtx, got, failedTries, ticker,
                   ctxDone, elapsed, last, seen, fails, warns, otherVars>>

\* r.dcrData(rctx) returns an error
DcrDataErr ==
    /\ At("run", "dcrData")
    /\ Goto("run", "bittrex")
    /\ UNCHANGED <<dcrPrice, btcPrice, mtx, pending, got, failedTries, ticker,
                   ctxDone, elapsed, last, seen, fails, warns, otherVars>>

\* r.bittrex(rctx): the DCR request succeeds and parses as d
BittrexDcrOk(d) ==
    /\ At("run", "bittrex")
    /\ ~ctxDone
    /\ pending' = [pending EXCEPT !.run = <<d, pending.run[2]>>]
    /\ Goto("run", "bittrexBTC")
    /\ UNCHANGED <<dcrPrice, btcPrice, mtx, got, failedTries, ticker,
                   ctxDone, elapsed, last, seen, fails, warns, otherVars>>

\* r.bittrex(rctx): the BTC request succeeds and parses as b
BittrexBtcOk(b) ==
    /\ At("run", "bittrexBTC")
    /\ ~ctxDone
    /\ pending' = [pending EXCEPT !.run = <<pending.run[1], b>>]
    /\ Goto("run", "lock")
    /\ UNCHANGED <<dcrPrice, btcPrice, mtx, got, failedTries, ticker,
                   ctxDone, elapsed, last, seen, fails, warns, otherVars>>

\* r.bittrex(rctx) returns an error, from the DCR or from the BTC request
BittrexErr ==
    /\ At("run", "bittrex") \/ At("run", "bittrexBTC")
    /\ Goto("run", "failed")
    /\ UNCHANGED <<dcrPrice, btcPrice, mtx, pending, got, failedTries, ticker,
                   ctxDone, elapsed, last, seen, fails, warns, otherVars>>

\* after a fetch that returned nil: failedTries = 0; t.Reset(longTimeout)
Success ==
    /\ At("run", "success")
    /\ failedTries' = 0
    /\ Reset(longTimeout)
    /\ fails' = 0 /\ warns' = 0
    /\ Goto("run", "select")
    /\ UNCHANGED <<dcrPrice, btcPrice, mtx, pending, got, ctxDone, last, seen,
                   otherVars>>

\* after both fetches failed: failedTries++, the reports at the warning
\* level, t.Reset(shortTimeout)
Failed(limit) ==
    /\ At("run", "failed")
    /\ failedTries < limit
    /\ failedTries' = failedTries + 1
    /\ warns' = IF ShouldWarn(failedTries') THEN warns + 1 ELSE warns
    /\ fails' = fails + 1
    /\ Reset(shortTimeout)
    /\ Goto("run", "select")
    /\ UNCHANGED <<dcrPrice, btcPrice, mtx, pending, got, ctxDone, last, seen,
                   otherVars>>

\* r.mtx.Lock(), in dcrData, bittrex, Set and Get
Lock(g) ==
    /\ At(g, "lock")
    /\ CanLock(g)
    /\ mtx' = g
    /\ seen' = IF g = "get" THEN last ELSE seen
    /\ Goto(g, IF g = "get" THEN "readDCR" ELSE "writeDCR")
    /\ UNCHANGED <<dcrPrice, btcPrice, pending, got, failedTries, ticker,
                   ctxDone, elapsed, last, fails, warns, otherVars>>

\* r.dcrPrice = dcrPrice, in dcrData, bittrex and Set
WriteDCR(g) ==
    /\ g \in {"run", "set"}
    /\ At(g, "writeDCR")
    /\ dcrPrice' = pending[g][1]
    /\ Goto(g, "writeBTC")
    /\ UNCHANGED <<btcPrice, mtx, pending, got, failedTries, ticker, ctxDone,
                   elapsed, last, seen, fails, warns, otherVars>>

\* r.btcPrice = btcPrice, in dcrData, bittrex and Set
WriteBTC(g) ==
    /\ g \in {"run", "set"}
    /\ At(g, "writeBTC")
    /\ btcPrice' = pending[g][2]
    /\ Goto(g, "unlock")
    /\ UNCHANGED <<dcrPrice, mtx, pending, got, failedTries, ticker, ctxDone,
                   elapsed, last, seen, fails, warns, otherVars>>

\* r.mtx.Unlock(): an update is complete (dcrData, bittrex, Set), or the
\* reads of Get are
Unlock(g) ==
    /\ At(g, "unlock")
    /\ mtx' = "none"
    /\ last' = IF g = "get" THEN last ELSE pending[g]
    /\ Goto(g, CASE g = "run" -> "success"
                 [] g = "set" -> "idle"
                 [] g = "get" -> "return")
    /\ UNCHANGED <<dcrPrice, btcPrice, pending, got, failedTries, ticker,
                   ctxDone, elapsed, seen, fails, warns, otherVars>>

\* a call of Set(d, b)
SetCall(d, b) ==
    /\ At("set", "idle")
    /\ pending' = [pending EXCEPT !.set = <<d, b>>]
    /\ Goto("set", "lock")
    /\ UNCHANGED <<dcrPrice, btcPrice, mtx, got, failedTries, ticker, ctxDone,
                   elapsed, last, seen, fails, warns, otherVars>>

\* a call of Get()
GetCall ==
    /\ At("get", "idle")
    /\ Goto("get", "lock")
    /\ UNCHANGED <<dcrPrice, btcPrice, mtx, pending, got, failedTries, ticker,
                   ctxDone, elapsed, last, seen, fails, warns, otherVars>>

\* dcrPrice, btcPrice := r.dcrPrice, r.btcPrice: the first read
ReadDCR ==
    /\ At("get", "readDCR")
    /\ got' = <<dcrPrice, got[2]>>
    /\ Goto("get", "readBTC")
    /\ UNCHANGED <<dcrPrice, btcPrice, mtx, pending, failedTries, ticker,
                   ctxDone, elapsed, last, seen, fails, warns, otherVars>>

\* the second read
ReadBTC ==
    /\ At("get", "readBTC")
    /\ got' = <<got[1], btcPrice>>
    /\ Goto("get", "unlock")
    /\ UNCHANGED <<dcrPrice, btcPrice, mtx, pending, failedTries, ticker,
                   ctxDone, elapsed, last, seen, fails, warns, otherVars>>

\* return dcrPrice, btcPrice
GetReturn ==
    /\ At("get", "return")
    /\ Goto("get", "idle")
    /\ UNCHANGED <<dcrPrice, btcPrice, mtx, pending, got, failedTries, ticker,
                   ctxDone, elapsed, last, seen, fails, warns, otherVars>>

InitRates ==
    /\ New
    /\ protoFile = NoFile /\ genFiles = <<>> /\ ret = "none" /\ runs = 0
    /\ comments = <<>> /\ str = <<>> /\ text = <<>> /\ passes = 0
    /\ wA = <<>> /\ wB = <<>> /\ wOut = <<>>

\* SpecRun: Run alone, with its ticker and its context
NextRun ==
    \/ RunStart
    \/ TickerFire
    \/ Cancel
    \/ CtxDone
    \/ RecvTick
    \/ StopTicker
    \/ \E d, b \in OnePrice : DcrDataOk(d, b)
    \/ DcrDataErr
    \/ \E d \in OnePrice : BittrexDcrOk(d)
    \/ \E b \in OnePrice : BittrexBtcOk(b)
    \/ BittrexErr
    \/ Lock("run")
    \/ WriteDCR("run")
    \/ WriteBTC("run")
    \/ Unlock("run")
    \/ Success
    \/ Failed(MaxTries)

SpecRun == InitRates /\ [][NextRun]_vars

\* SpecRates: Run together with callers of Get and Set
NextRates ==
    \/ RunStart
    \/ TickerFire
    \/ RecvTick
    \/ StopTicker
    \/ \E d, b \in Prices : DcrDataOk(d, b)
    \/ DcrDataErr
    \/ \E d \in Prices : BittrexDcrOk(d)
    \/ \E b \in Prices : BittrexBtcOk(b)
    \/ BittrexErr
    \/ Success
    \/ Failed(MaxFails)
    \/ \E g \in Goroutines : Lock(g)
    \/ \E g \in Goroutines : WriteDCR(g)
    \/ \E g \in Goroutines : WriteBTC(g)
    \/ \E g \in Goroutines : Unlock(g)
    \/ \E d, b \in Prices : SetCall(d, b)
    \/ GetCall
    \/ ReadDCR
    \/ ReadBTC
    \/ GetReturn

SpecRates == InitRates /\ [][NextRates]_vars

(***************************************************************************)
(* Reading the generated text back.                                        *)
(***************************************************************************)
\* indices of the lines of ls equal to l
LinesAt(ls, l) == {k \in 1..Len(ls) : ls[k] = l}

Min(S) == CHOOSE x \in S : \A y \in S : x <= y

\* the lines after the first line `header` up to the next line `stop`
Block(ls, header, stop) ==
    IF LinesAt(ls, header) = {} THEN <<>>
    ELSE LET i == Min(LinesAt(ls, header))
             ends == {k \in (i + 1)..Len(ls) : ls[k] = stop}
         IN  IF ends = {} THEN SubSeq(ls, i + 1, Len(ls))
             ELSE SubSeq(ls, i + 1, Min(ends) - 1)

\* a printed line is its leading comment lines, each ended by a newline,
\* followed by code
LastNL(l) ==
    IF \E k \in 1..Len(l) : l[k] = NL
    THEN CHOOSE k \in 1..Len(l) : l[k] = NL /\ \A j \in (k + 1)..Len(l) : l[j] # NL
    ELSE 0
DocOf(l) == SubSeq(l, 1, LastNL(l))
SigOf(l) == SubSeq(l, LastNL(l) + 1, Len(l))

\* the documentation blocks and code lines of a list of printed lines, in
\* the order of the text
RECURSIVE Units(_)
Units(ls) ==
    IF ls = <<>> THEN <<>>
    ELSE (IF DocOf(ls[1]) # <<>> THEN <<DocOf(ls[1])>> ELSE <<>>)
         \o (IF SigOf(ls[1]) # <<>> THEN <<SigOf(ls[1])>> ELSE <<>>)
         \o Units(Tail(ls))

ClientInterface(ls, svcName) ==
    Block(ls, <<"type ", svcName, "Client", " interface {">>, <<"}">>)
ServerInterface(ls, svcName) ==
    Block(ls, <<"type ", svcName, "Server", " interface {">>, <<"}">>)

\* the signatures declared in an interface body
InterfaceSigs(body) ==
    {SigOf(body[k]) : k \in {j \in 1..Len(body) :
                                body[j] # <<deprecationComment>>}}
InterfaceNames(body) == {sig[1] : sig \in InterfaceSigs(body)}
SigNamed(body, name) ==
    CHOOSE sig \in InterfaceSigs(body) : sig[1] = name

\* the body of the <Service>Defn function
DefnBody(ls, svcName) ==
    Block(ls, <<"func ", svcName, "Defn() ServiceDefn { ">>, <<>>)
IsKeyLine(l) == Len(l) = 3 /\ l[1] = "\"" /\ l[3] = "\": {"
KeyLines(body) == {k \in 1..Len(body) : IsKeyLine(body[k])}
DefnKeys(body) == {body[k][2] : k \in KeyLines(body)}
\* the lines of the entry whose key line is at k: up to the next key line
EntryAt(body, k) ==
    LET later == {j \in KeyLines(body) : j > k}
    IN  SubSeq(body, k + 1, IF later = {} THEN Len(body) ELSE Min(later) - 1)
EntryOf(body, key) ==
    EntryAt(body, CHOOSE k \in KeyLines(body) : body[k][2] = key)

\* the generated client methods of a service: the lines that open them
ClientFuncLines(ls, svcName) ==
    {k \in 1..Len(ls) :
        /\ Len(ls[k]) >= 5
        /\ SubSeq(ls[k], 1, 4) = <<"func (c *", "client_", svcName, ") ">>}

Generated == {genFiles[i].lines : i \in 1..Len(genFiles)}
Services == {protoFile.Services[i] : i \in 1..Len(protoFile.Services)}
MethodsOf(svc) == {svc.Methods[i] : i \in 1..Len(svc.Methods)}

(***************************************************************************)
(* Claims on the generated interfaces and dispatch table.                  *)
(***************************************************************************)
ClientSigStreaming(ls, m) ==
    LET sig == SigNamed(ClientInterface(ls, m.Parent), m.GoName)
    IN  \E k \in 1..Len(sig) : sig[k] = "Client"
ServerSigStreaming(ls, m) ==
    LET sig == SigNamed(ServerInterface(ls, m.Parent), m.GoName)
    IN  \E k \in 1..Len(sig) : sig[k] = "Server"
ClientBodyStreaming(ls, m) ==
    \E k \in ClientFuncLines(ls, m.Parent) :
        /\ ls[k][5] = m.GoName
        /\ ls[k + 2] = <<"inner, err := c.defn.Methods[method].ClientStreamHandler(c.c, ctx, in)">>
ClientBodyUnary(ls, m) ==
    \E k \in ClientFuncLines(ls, m.Parent) :
        /\ ls[k][5] = m.GoName
        /\ ls[k + 2] = <<"return c.defn.Methods[method].ClientHandler(c.c, ctx, in, out)">>
EntryFields(ls, m) ==
    LET e == EntryOf(DefnBody(ls, m.Parent), m.GoName)
    IN  {e[k][1] : k \in {j \in 1..Len(e) : e[j] # <<>>}}
EntryStreaming(ls, m) ==
    /\ "ServerStreamHandler: func(x interface{}, ctx " \in EntryFields(ls, m)
    /\ "ClientStreamHandler: func(conn ClientConn, ctx " \in EntryFields(ls, m)
EntryUnary(ls, m) ==
    /\ "ServerHandler: func(x interface{}, ctx " \in EntryFields(ls, m)
    /\ "ClientHandler: func(conn ClientConn, ctx " \in EntryFields(ls, m)

\* C1: for every method and every combination of the two streaming flags,
\* the client signature, the server signature, the client method body and
\* the MethodDefn entry are all unary or all streaming, never a mix.
C1_OneShape ==
    \A ls \in Generated : \A s \in Services : \A m \in MethodsOf(s) :
        \/ /\ ClientSigStreaming(ls, m) /\ ServerSigStreaming(ls, m)
           /\ ClientBodyStreaming(ls, m) /\ ~ClientBodyUnary(ls, m)
           /\ EntryStreaming(ls, m) /\ ~EntryUnary(ls, m)
        \/ /\ ~ClientSigStreaming(ls, m) /\ ~ServerSigStreaming(ls, m)
           /\ ClientBodyUnary(ls, m) /\ ~ClientBodyStreaming(ls, m)
           /\ EntryUnary(ls, m) /\ ~EntryStreaming(ls, m)

\* C2: for every service, the keys of the Methods literal of its ServiceDefn
\* are the method names of its client interface and of its server interface.
C2_KeySets ==
    \A ls \in Generated : \A s \in Services :
        LET keys == DefnKeys(DefnBody(ls, s.GoName)) IN
        /\ keys = InterfaceNames(ClientInterface(ls, s.GoName))
        /\ keys = InterfaceNames(ServerInterface(ls, s.GoName))

C2_Witness ==
    \E ls \in Generated : \E s \in Services :
        /\ Cardinality(DefnKeys(DefnBody(ls, s.GoName))) >= 2
        /\ \E m \in MethodsOf(s) : m.Deprecated
        /\ DefnKeys(DefnBody(ls, s.GoName))
               = InterfaceNames(ClientInterface(ls, s.GoName))

\* C5 (as stated): for every schema file the generator emits a help table
\* with one entry per declared message, each holding "@" and one key per
\* field, whatever services the file declares.
HelpBody(ls) ==
    Block(ls, <<"var ", "help_messages", " = map[string]map[string]string{">>,
          <<"}">>)
IsFieldKeyLine(l) == Len(l) = 3 /\ l[1] = "\"" /\ l[3] = "\": "
KeyOf(l) == IF l = <<"\"@\":">> THEN "@" ELSE l[2]
\* the keys of the entry whose key line is at k: up to its closing line
HelpKeysAt(body, k) ==
    LET ends == {j \in (k + 1)..Len(body) : body[j] = <<"},">>}
        seg == SubSeq(body, k + 1,
                      IF ends = {} THEN Len(body) ELSE Min(ends) - 1)
        keyLines == SelectSeq(seg,
                        LAMBDA l : l = <<"\"@\":">> \/ IsFieldKeyLine(l))
    IN  [j \in 1..Len(keyLines) |-> KeyOf(keyLines[j])]
\* the entries of the help table, in order: <<message name, keys>>
HelpEntries(body) ==
    LET ks == SelectSeq([k \in 1..Len(body) |-> k],
                        LAMBDA k : IsKeyLine(body[k]))
    IN  [j \in 1..Len(ks) |-> <<body[ks[j]][2], HelpKeysAt(body, ks[j])>>]
ExpectedHelpEntries ==
    [j \in 1..Len(protoFile.Messages) |->
        <<protoFile.Messages[j].GoName,
          <<"@">> \o [f \in 1..Len(protoFile.Messages[j].Fields) |->
                         protoFile.Messages[j].Fields[f].Name]>>]
HelpTableEmitted ==
    /\ Len(genFiles) = runs
    /\ \A ls \in Generated :
           /\ Cardinality(LinesAt(ls, <<"var ", "help_messages",
                   " = map[string]map[string]string{">>)) = 1
           /\ HelpEntries(HelpBody(ls)) = ExpectedHelpEntries

C5_HelpTableEveryFile == runs >= 1 => HelpTableEmitted

\* C5 (amended): the same for every schema file that declares at least one
\* service; for a file without services nothing is generated.
C5_HelpTableWithServices ==
    /\ (runs >= 1 /\ Len(protoFile.Services) > 0) => HelpTableEmitted
    /\ (runs >= 1 /\ Len(protoFile.Services) = 0) =>
           ret = "nil" /\ genFiles = <<>>

C5_Witness ==
    /\ runs >= 1
    /\ Len(protoFile.Services) > 0
    /\ \E j \in 1..Len(protoFile.Messages) :
           /\ protoFile.Messages[j].GoName = "Info"
           /\ Len(protoFile.Messages[j].Fields) >= 2
    /\ HelpTableEmitted

\* the documentation block, deprecation notice and signature of method m
\* as they follow each other in an interface body
NoticeThenDoc(body, m) ==
    LET u == Units(body) IN
    \E k \in 1..Len(u) :
        /\ u[k][1] = m.GoName
        /\ IF m.Leading # <<>>
           THEN /\ k >= 3
                /\ u[k - 1] = CommentsString(m.Leading)
                /\ u[k - 2] = <<deprecationComment>>
           ELSE /\ k >= 2
                /\ u[k - 1] = <<deprecationComment>>
DocThenNotice(body, m) ==
    LET u == Units(body) IN
    \E k \in 1..Len(u) :
        /\ u[k][1] = m.GoName
        /\ k >= 2
        /\ u[k - 1] = <<deprecationComment>>
        /\ m.Leading # <<>> =>
               k >= 3 /\ u[k - 2] = CommentsString(m.Leading)

\* C6 (as stated): the deprecation notice of a deprecated method comes
\* immediately after the method's documentation block and before its
\* signature, in the client and in the server interface.
C6_NoticeAfterDoc ==
    \A ls \in Generated : \A s \in Services :
        LET client == ClientInterface(ls, s.GoName)
            server == ServerInterface(ls, s.GoName)
        IN  \A m \in MethodsOf(s) :
                m.Deprecated =>
                    DocThenNotice(client, m) /\ DocThenNotice(server, m)

\* C6 (amended): the deprecation notice of a deprecated method comes
\* immediately before the method's documentation block, which the signature
\* follows (immediately before the signature when there is no
\* documentation), in the client and in the server interface.
C6_NoticeBeforeDoc ==
    \A ls \in Generated : \A s \in Services :
        LET client == ClientInterface(ls, s.GoName)
            server == ServerInterface(ls, s.GoName)
        IN  \A m \in MethodsOf(s) :
                m.Deprecated =>
                    NoticeThenDoc(client, m) /\ NoticeThenDoc(server, m)

C6_Witness ==
    \E ls \in Generated : \E s \in Services : \E m \in MethodsOf(s) :
        /\ m.Deprecated /\ m.Leading # <<>>
        /\ NoticeThenDoc(ClientInterface(ls, s.GoName), m)
        /\ NoticeThenDoc(ServerInterface(ls, s.GoName), m)

\* the "method := ..." line of the entry whose key line is at k
MethodStringAt(body, k) ==
    LET e == EntryAt(body, k)
    IN  SelectSeq(e, LAMBDA l : l # <<>> /\ l[1] = "method := \"")

\* C7: the method string a ClientHandler or ClientStreamHandler passes to
\* the transport is "<ServiceName>.<MethodName>", the key of the entry is
\* "<MethodName>", the generated client method looks up that same key, and
\* the names are those of the schema.
C7_DispatchKeys ==
    \A ls \in Generated : \A s \in Services :
        LET body == DefnBody(ls, s.GoName) IN
        /\ DefnKeys(body) = {m.GoName : m \in MethodsOf(s)}
        /\ \A k \in KeyLines(body) :
               MethodStringAt(body, k)
                   = <<<<"method := \"", s.GoName, ".", body[k][2], "\"">>>>
        /\ {ls[k][5] : k \in ClientFuncLines(ls, s.GoName)} = DefnKeys(body)
        /\ \A k \in ClientFuncLines(ls, s.GoName) :
               ls[k + 1] = <<"const method = \"", ls[k][5], "\"">>

C7_Witness ==
    \E ls \in Generated : \E s \in Services :
        /\ Cardinality(KeyLines(DefnBody(ls, s.GoName))) >= 2
        /\ \E m \in MethodsOf(s) : m.IsStreamingServer
        /\ \E m \in MethodsOf(s) : ~m.IsStreamingServer
        /\ \A k \in KeyLines(DefnBody(ls, s.GoName)) :
               Len(MethodStringAt(DefnBody(ls, s.GoName), k)) = 1

Find(sq, piece) == Min({k \in 1..Len(sq) : sq[k] = piece})

RECURSIVE SplitPieces(_, _)
SplitPieces(sq, seps) ==
    IF \A k \in 1..Len(sq) : sq[k] \notin seps THEN <<sq>>
    ELSE LET i == Min({k \in 1..Len(sq) : sq[k] \in seps})
         IN  <<SubSeq(sq, 1, i - 1)>>
             \o SplitPieces(SubSeq(sq, i + 1, Len(sq)), seps)

RECURSIVE ClientParams(_)
ClientParams(sq) ==
    IF sq = <<>> THEN <<>>
    ELSE LET rest == Tail(sq)
             nexts == {k \in 1..Len(rest) :
                          rest[k] \in {"(ctx ", ", in *", ", out *"}}
             n == IF nexts = {} THEN Len(rest) ELSE Min(nexts) - 1
             ptr == IF sq[1] \in {", in *", ", out *"} THEN <<"*">> ELSE <<>>
         IN  <<ptr \o SubSeq(rest, 1, n)>>
             \o ClientParams(SubSeq(rest, n + 1, Len(rest)))

ClientShape(sig) ==
    LET i == Find(sig, ") (")
        res == SplitPieces(SubSeq(sig, i + 1, Len(sig)), {","})
    IN  [params |-> ClientParams(SubSeq(sig, 2, i - 1)),
         results |-> [k \in 1..Len(res) |->
                         IF res[k] = <<"error)">> THEN <<"error">> ELSE res[k]]]

ServerShape(sig) ==
    LET i == Find(sig, ") ")
    IN  [params |-> SplitPieces(SubSeq(sig, 3, i - 1), {", "}),
         results |-> <<SubSeq(sig, i + 1, Len(sig))>>]

\* the signatures of the specification's table
TableClient(m) ==
    [params |-> <<<<ctxIdent>>>>
                \o (IF ~m.IsStreamingClient THEN <<<<"*", m.Input>>>> ELSE <<>>)
                \o (IF ~m.IsStreamingServer THEN <<<<"*", m.Output>>>> ELSE <<>>),
     results |-> IF ~m.IsStreamingClient /\ ~m.IsStreamingServer
                 THEN <<<<"error">>>>
                 ELSE <<<<m.Parent, "_", m.GoName, "Client">>, <<"error">>>>]
TableServer(m) ==
    [params |-> IF ~m.IsStreamingClient /\ ~m.IsStreamingServer
                THEN <<<<ctxIdent>>, <<"*", m.Input>>, <<"*", m.Output>>>>
                ELSE <<<<ctxIdent>>>>
                     \o (IF ~m.IsStreamingClient
                         THEN <<<<"*", m.Input>>>> ELSE <<>>)
                     \o <<<<m.Parent, "_", m.GoName, "Server">>>>,
     results |-> <<<<"error">>>>]

\* C10: the client and server signatures declared for a method are those
\* of the table, a function of the two streaming flags alone.
C10_SignatureTable ==
    \A ls \in Generated : \A s \in Services :
        LET client == ClientInterface(ls, s.GoName)
            server == ServerInterface(ls, s.GoName)
        IN  \A m \in MethodsOf(s) :
                /\ ClientShape(SigNamed(client, m.GoName)) = TableClient(m)
                /\ ServerShape(SigNamed(server, m.GoName)) = TableServer(m)

C10_Witness ==
    \E ls \in Generated : \E s \in Services : \E m, u \in MethodsOf(s) :
        /\ m.IsStreamingClient /\ ~m.IsStreamingServer
        /\ ~u.IsStreamingClient /\ ~u.IsStreamingServer
        /\ ClientShape(SigNamed(ClientInterface(ls, s.GoName), m.GoName))
               = TableClient(m)
        /\ ServerShape(SigNamed(ServerInterface(ls, s.GoName), u.GoName))
               = TableServer(u)

\* the handler fields a MethodDefn entry can populate
UnaryPair ==
    {"ServerHandler: func(x interface{}, ctx ",
     "ClientHandler: func(conn ClientConn, ctx "}
StreamPair ==
    {"ServerStreamHandler: func(x interface{}, ctx ",
     "ClientStreamHandler: func(conn ClientConn, ctx "}
\* the lines of entry e that open the field named by their first piece
FieldLines(e, field) ==
    SelectSeq(e, LAMBDA l : l # <<>> /\ l[1] = field)
HandlersOf(e) ==
    {h \in UnaryPair \cup StreamPair : FieldLines(e, h) # <<>>}

\* C11: every emitted MethodDefn entry has IsStreaming equal to the
\* method's serverStreams flag and populates exactly one handler pair, each
\* handler once: ServerHandler and ClientHandler when IsStreaming is false,
\* ServerStreamHandler and ClientStreamHandler when it is true.
C11_EntryHandlerPair ==
    \A ls \in Generated : \A s \in Services :
        LET body == DefnBody(ls, s.GoName) IN
        \A m \in MethodsOf(s) :
            LET e == EntryOf(body, m.GoName) IN
            /\ FieldLines(e, "IsStreaming: ")
                   = <<<<"IsStreaming: ",
                         IF m.IsStreamingServer THEN "true" ELSE "false",
                         ",">>>>
            /\ HandlersOf(e)
                   = (IF m.IsStreamingServer THEN StreamPair ELSE UnaryPair)
            /\ \A h \in HandlersOf(e) : Len(FieldLines(e, h)) = 1

C11_Witness ==
    \E ls \in Generated : \E s \in Services : \E m, u \in MethodsOf(s) :
        /\ m.IsStreamingClient /\ ~m.IsStreamingServer
        /\ u.IsStreamingServer
        /\ HandlersOf(EntryOf(DefnBody(ls, s.GoName), m.GoName)) = UnaryPair
        /\ HandlersOf(EntryOf(DefnBody(ls, s.GoName), u.GoName)) = StreamPair

\* the lines that open the auxiliary interfaces of method m
AuxClientHeader(m) ==
    <<"type ", m.Parent, "_", m.GoName, "Client interface {">>
AuxServerHeader(m) ==
    <<"type ", m.Parent, "_", m.GoName, "Server", " interface {">>
\* the operations declared between the header and the closing brace
AuxBody(ls, header) == Block(ls, header, <<"}">>)

AuxAsFlags(ls, m) ==
    LET either == m.IsStreamingClient \/ m.IsStreamingServer
        count == IF either THEN 1 ELSE 0
    IN  /\ Cardinality(LinesAt(ls, AuxClientHeader(m))) = count
        /\ Cardinality(LinesAt(ls, AuxServerHeader(m))) = count
        /\ either =>
               /\ AuxBody(ls, AuxClientHeader(m))
                      = (IF m.IsStreamingServer
                         THEN <<<<"Recv(*", m.Output, ") error">>>>
                         ELSE <<>>)
               /\ AuxBody(ls, AuxServerHeader(m))
                      = (IF m.IsStreamingServer
                         THEN <<<<"Send(m *", m.Output, ") error ">>>>
                         ELSE <<>>)

\* C12: the auxiliary interfaces <Service>_<Method>Client and
\* <Service>_<Method>Server are each emitted once when either streaming flag
\* is set and not at all when neither is; the client one declares Recv and
\* the server one Send exactly when serverStreams is set, and they declare
\* nothing else.
C12_AuxInterfaces ==
    \A ls \in Generated : \A s \in Services : \A m \in MethodsOf(s) :
        AuxAsFlags(ls, m)

C12_Witness ==
    \E ls \in Generated : \E s \in Services : \E m, u \in MethodsOf(s) :
        /\ m.IsStreamingClient /\ ~m.IsStreamingServer
        /\ ~u.IsStreamingClient /\ ~u.IsStreamingServer
        /\ AuxBody(ls, AuxClientHeader(m)) = <<>>
        /\ LinesAt(ls, AuxServerHeader(m)) # {}
        /\ LinesAt(ls, AuxClientHeader(u)) = {}
        /\ \E t \in Services : \E v \in MethodsOf(t) :
               /\ v.IsStreamingServer
               /\ Len(AuxBody(ls, AuxServerHeader(v))) = 1

\* C14: the MethodDefn field the generated client method of a method
\* invokes (ClientHandler or ClientStreamHandler) is one that the method's
\* entry populates, for every combination of the streaming flags.
C14_ClientHandlerSet ==
    \A ls \in Generated : \A s \in Services : \A m \in MethodsOf(s) :
        /\ ClientBodyUnary(ls, m) =>
               "ClientHandler: func(conn ClientConn, ctx "
                   \in EntryFields(ls, m)
        /\ ClientBodyStreaming(ls, m) =>
               "ClientStreamHandler: func(conn ClientConn, ctx "
                   \in EntryFields(ls, m)

(***************************************************************************)
(* Claims on the comment normalizer.                                       *)
(***************************************************************************)
\* a text that a further normalization leaves alone: no newline ends it and
\* no newline follows a character that is not a newline
Stable(t) ==
    \A i \in 1..Len(t) :
        t[i] = NL => i < Len(t) /\ (i = 1 \/ t[i - 1] = NL)

SingleLine(t) == \A i \in 1..Len(t) : t[i] # NL

\* C3 (as stated): normalization is idempotent: after normalizing the text
\* content a first call produced, the content produced is that same text.
C3_Idempotent == passes = 2 => text = comments

\* C3 (amended): the second normalization reproduces the content exactly
\* when no newline of it ends it or follows a non-newline character; in
\* particular whenever the first call produced a single line.
C3_IdempotentOnStable ==
    passes = 2 =>
        /\ (text = comments) <=> Stable(comments)
        /\ SingleLine(comments) => text = comments

C3_Witness ==
    /\ passes = 2
    /\ SingleLine(comments)
    /\ \E i \in 1..Len(comments) : comments[i] = " "
    /\ text = comments

Escapable(t) == \E i \in 1..Len(t) : t[i] \in {QUOTE, BSL}

\* C13: commentsToStr never returns an empty expression: for an empty
\* comment it returns the one literal "", and for every comment the
\* expression opens and closes with a double quote, which makes at least
\* one quoted literal (well-formed whenever the comment holds nothing to
\* escape).
C13_NeverEmpty ==
    passes >= 1 =>
        /\ comments = <<>> => str = <<QUOTE, QUOTE>>
        /\ Len(str) >= 2 /\ str[1] = QUOTE /\ str[Len(str)] = QUOTE
        /\ ~Escapable(comments) => Decode(str)[1]

C13_Witness ==
    /\ passes = 1
    /\ comments = <<>>
    /\ str = <<QUOTE, QUOTE>>

\* C4: the expression commentsToStr returns is a well-formed '+'-joined
\* sequence of string literals whose decoded value is the normalized text.
C4_WellFormedLiteral ==
    passes >= 1 => Decode(str)[1] /\ Decode(str)[2] = text

OneLiteral(t) == <<QUOTE>> \o t \o <<QUOTE>>

TwoLiterals(s, t) ==
    <<QUOTE>> \o s \o <<BSL, "n", QUOTE, "+", NL, QUOTE>> \o t \o <<QUOTE>>

WrapPre ==
    /\ wA = <<>> \/ ~IsSpace(wA[Len(wA)])
    /\ wB = <<>> \/ ~IsSpace(wB[1])

WrapHolds ==
    /\ "soft" \in DOMAIN wOut =>
           wOut["soft"] = OneLiteral(TrimLeft(wA) \o <<" ">> \o TrimRight(wB))
    /\ {"soft", "space"} \subseteq DOMAIN wOut => wOut["soft"] = wOut["space"]
    /\ "para" \in DOMAIN wOut =>
           wOut["para"] = TwoLiterals(TrimSpace(wA), TrimSpace(wB))

\* C9 (as stated): for single-line a, b where a does not end and b does not
\* begin with white space, a+"\n"+b normalizes like a+" "+b, to one literal
\* with a single space joining, and a+"\n\n"+b to two quoted lines.
C9_SoftWrap == WrapPre => WrapHolds

\* C9 (amended): the same, for non-empty a and b.
C9_SoftWrapNonEmpty == (WrapPre /\ wA # <<>> /\ wB # <<>>) => WrapHolds

C9_Witness ==
    /\ WrapPre /\ wA # <<>> /\ wB # <<>>
    /\ DOMAIN wOut = Seps
    /\ wOut["soft"] = wOut["space"]
    /\ wOut["para"] # wOut["soft"]

(***************************************************************************)
(* Claims on the exchange-rate poller.                                     *)
(***************************************************************************)
\* the stored prices are those of the most recent completed update
StoredTogether == mtx = "none" => <<dcrPrice, btcPrice>> = last
\* what Get has read, and then returns, is the pair of the update that was
\* the most recent completed one while Get held the mutex
GetTogether ==
    /\ At("get", "unlock") => got = last
    /\ (At("get", "unlock") \/ At("get", "return")) => got = seen
\* a step in which a fetch fails (dcrdata, bittrex for DCR, bittrex for BTC)
FetchFails ==
    \/ pc.run = "dcrData" /\ pc'.run = "bittrex"
    \/ pc.run \in {"bittrex", "bittrexBTC"} /\ pc'.run = "failed"
\* the goroutine of Run is in a fetch that has not returned nil
InFailingFetch == pc.run \in {"dcrData", "bittrex", "bittrexBTC", "failed"}

\* C15: Get returns a DCR/BTC pair written together by one update (a Set, a
\* successful dcrdata fetch or a successful bittrex fetch), the most recent
\* completed one, or (0, 0) before any, under every interleaving with Run
\* and Set; a fetch that fails at any step leaves both stored prices as
\* they are.
C15_GetOneUpdate ==
    /\ [](StoredTogether /\ GetTogether)
    /\ [](InFailingFetch => mtx # "run")
    /\ [][FetchFails => (dcrPrice' = dcrPrice /\ btcPrice' = btcPrice
                          /\ last' = last)]_vars

C15_Witness ==
    /\ At("get", "unlock")
    /\ At("set", "lock")
    /\ At("run", "lock")
    /\ got[1] # got[2]
    /\ got = last
    /\ pending.set # got /\ pending.run # got

\* C16: the warning-level reports of Run are logged once, at the 20th
\* consecutive tick in which both fetches failed, and not again before a
\* successful fetch.
C16_WarnOnce == warns = (IF fails >= 20 THEN 1 ELSE 0)

C16_Witness ==
    /\ fails >= 21
    /\ warns = 1
    /\ At("run", "select")

\* C17: a fetch attempt starts only once the interval armed by the previous
\* attempt (10 minutes after a success, 30 seconds after a failure) has
\* elapsed; a tick of the first ticker still buffered at Stop or Reset does
\* not start one.
C17_NoEarlyFetch ==
    [][(pc.run = "select" /\ pc'.run = "stop") => elapsed]_vars

====
